---------------------------- MODULE Spec2Model ----------------------------
(* A model of the TUI process and syscall inspector (src/src/main.rs):     *)
(* the App state, the key and tick handlers of run_app, the strace         *)
(* subprocess with its stderr pipe, the reader thread and the mpsc         *)
(* channel, and the pure functions parse_syscall and the fuzzy search.     *)
(*                                                                         *)
(* Strings are sequences of one-character strings.  An Option<T> is a      *)
(* sequence of length at most one: None is << >> and Some(x) is <<x>>.     *)
EXTENDS Naturals, Integers, Sequences, FiniteSets, TLC

(***************************************************************************)
(* Bounds of the model.                                                    *)
(***************************************************************************)
\* strace subprocesses spawned in one run of the program
MaxSessions == 2
\* lines one strace subprocess writes to its stderr
MaxEmit == 2
\* lines the strace subprocess writes in the session sub-machine
MaxSessionEmit == 3
\* lines the stderr pipe holds before the subprocess blocks
PipeCap == 1
\* characters in the process filter of the selection screen
MaxProcFilter == 1
\* characters in the fuzzy query of the monitoring screen
MaxQuery == 1
\* characters of a raw line handed to parse_syscall on its own
MaxLine == 4
\* names in the set the filter sub-machine starts from
MaxSet == 3

(***************************************************************************)
(* Characters and strings.                                                 *)
(***************************************************************************)
None == << >>

Some(x) == <<x>>

\* the characters an operator types (KeyCode::Char)
TypedChars == {"q", "b", "k", "f"}

\* the characters of raw lines handed to parse_syscall on its own
LineChars == {"b", "k", "(", " ", "1"}

RECURSIVE StringsUpTo(_, _)
StringsUpTo(chars, n) ==
    IF n = 0 THEN {<< >>}
    ELSE LET shorter == StringsUpTo(chars, n - 1)
         IN  shorter \cup {Append(s, c) : s \in shorter, c \in chars}

is_whitespace(c) == c \in {" ", "\t"}

is_alphabetic(c) == c \in {"b", "k", "q", "f", "K"}

to_lowercase_char(c) == IF c = "K" THEN "k" ELSE c

to_lowercase(s) == [i \in 1..Len(s) |-> to_lowercase_char(s[i])]

RECURSIVE trim_start(_)
trim_start(s) ==
    IF s = << >> THEN << >>
    ELSE IF is_whitespace(Head(s)) THEN trim_start(Tail(s)) ELSE s

RECURSIVE trim_end(_)
trim_end(s) ==
    IF s = << >> THEN << >>
    ELSE IF is_whitespace(s[Len(s)]) THEN trim_end(SubSeq(s, 1, Len(s) - 1)) ELSE s

trim(s) == trim_end(trim_start(s))

\* str::find(char): Some(0-based index of the first occurrence) or None
RECURSIVE find_from(_, _, _)
find_from(s, c, i) ==
    IF i > Len(s) THEN None
    ELSE IF s[i] = c THEN Some(i - 1) ELSE find_from(s, c, i + 1)

find(s, c) == find_from(s, c, 1)

\* str::contains(&str): the needle occurs as a contiguous substring
contains(hay, needle) ==
    \E i \in 0..(Len(hay) - Len(needle)) :
        SubSeq(hay, i + 1, i + Len(needle)) = needle

(***************************************************************************)
(* parse_syscall (src/src/main.rs:345-354).                                *)
(***************************************************************************)
\* a slip: the line is not trimmed before it is inspected
parse_syscall_untrimmed(line) ==
    IF line = << >> THEN None
    ELSE IF ~is_alphabetic(line[1]) THEN None
    ELSE LET idx == find(line, "(")
         IN  IF idx = None THEN None
             ELSE Some(SubSeq(line, 1, idx[1]))

parse_syscall(line) ==
    LET trimmed == trim(line)
    IN  IF trimmed = << >> THEN None
        ELSE IF ~is_alphabetic(trimmed[1]) THEN None
        ELSE LET idx == find(trimmed, "(")
             IN  IF idx = None THEN None
                 ELSE Some(SubSeq(trimmed, 1, idx[1]))

(***************************************************************************)
(* The fuzzy search (src/src/main.rs:130-143).                             *)
(***************************************************************************)
\* the positions of the leftmost embedding of pattern[j..] in choice[i..],
\* compared without case; None when pattern is no subsequence of choice
RECURSIVE match_positions(_, _, _, _)
match_positions(choice, pattern, i, j) ==
    IF j > Len(pattern) THEN Some(<< >>)
    ELSE IF i > Len(choice) THEN None
    ELSE IF to_lowercase_char(choice[i]) = to_lowercase_char(pattern[j])
         THEN LET rest == match_positions(choice, pattern, i + 1, j + 1)
              IN  IF rest = None THEN None ELSE Some(<<i>> \o rest[1])
         ELSE match_positions(choice, pattern, i + 1, j)

RECURSIVE gap_penalty(_, _)
gap_penalty(pos, k) ==
    IF k > Len(pos) THEN 0
    ELSE (IF k = 1 THEN pos[1] - 1 ELSE 2 * (pos[k] - pos[k - 1] - 1))
         + gap_penalty(pos, k + 1)

\* SkimMatcherV2::fuzzy_match: Some(score) when the pattern is a subsequence
\* of the choice, None otherwise; the score rewards matched characters and a
\* match at the start, and charges the gaps
fuzzy_match(choice, pattern) ==
    LET m == match_positions(choice, pattern, 1, 1)
    IN  IF m = None THEN None
        ELSE LET pos == m[1]
             IN  Some(16 * Len(pos)
                      + (IF Len(pos) > 0 /\ pos[1] = 1 THEN 8 ELSE 0)
                      - gap_penalty(pos, 1))

\* filter_map over the iteration order: the (score, name) pairs of the matches
RECURSIVE filter_map_scores(_, _)
filter_map_scores(order, query) ==
    IF order = << >> THEN << >>
    ELSE LET sc == fuzzy_match(Head(order), query)
             rest == filter_map_scores(Tail(order), query)
         IN  IF sc = None THEN rest ELSE <<[score |-> sc[1], name |-> Head(order)]>> \o rest

\* a slip: the comparator is a.0.cmp(&b.0), ascending
RECURSIVE insert_ascending(_, _)
insert_ascending(sorted, e) ==
    IF sorted = << >> THEN <<e>>
    ELSE IF e.score < Head(sorted).score THEN <<e>> \o sorted
         ELSE <<Head(sorted)>> \o insert_ascending(Tail(sorted), e)

\* one step of the stable sort_by(|a, b| b.0.cmp(&a.0)): e goes after every
\* element whose score is at least its own
RECURSIVE insert_descending(_, _)
insert_descending(sorted, e) ==
    IF sorted = << >> THEN <<e>>
    ELSE IF e.score > Head(sorted).score THEN <<e>> \o sorted
         ELSE <<Head(sorted)>> \o insert_descending(Tail(sorted), e)

RECURSIVE sort_by_score(_, _)
sort_by_score(results, acc) ==
    IF results = << >> THEN acc
    ELSE sort_by_score(Tail(results), insert_descending(acc, Head(results)))

\* update_filtered_syscalls, as a function of the iteration order of the
\* HashSet and of the query
search(order, query) ==
    IF query = << >> THEN order
    ELSE LET results == sort_by_score(filter_map_scores(order, query), << >>)
         IN  [i \in 1..Len(results) |-> results[i].name]

\* the sequences that hold every member of a set once: the orders in which a
\* HashSet may iterate
Orders(set) ==
    {o \in [1..Cardinality(set) -> set] : \A i, j \in 1..Cardinality(set) : o[i] = o[j] => i = j}

(***************************************************************************)
(* The Process Directory: what sysinfo reports (src/src/main.rs:94-107).   *)
(***************************************************************************)
\* the processes that may be running while the inspector runs
ProcessUniverse ==
    { [pid |-> 1, name |-> <<"K">>, cmd |-> <<"K", " ", "b">>],
      [pid |-> 2, name |-> <<"b">>, cmd |-> << >>] }

\* sort_by(|a, b| a.pid.cmp(&b.pid)) of the records sysinfo's map holds
RECURSIVE get_processes(_)
get_processes(running) ==
    IF running = {} THEN << >>
    ELSE LET least == CHOOSE p \in running : \A r \in running : p.pid <= r.pid
         IN  <<least>> \o get_processes(running \ {least})

\* the filter closure of update_filtered_processes
process_matches(p, filter) ==
    \/ contains(to_lowercase(p.name), to_lowercase(filter))
    \/ contains(to_lowercase(p.cmd), to_lowercase(filter))

RECURSIVE filter_processes(_, _)
filter_processes(procs, filter) ==
    IF procs = << >> THEN << >>
    ELSE (IF process_matches(Head(procs), filter) THEN <<Head(procs)>> ELSE << >>)
         \o filter_processes(Tail(procs), filter)

\* a slip: the cursor is not reset when it falls outside the new list
update_filtered_processes_no_clamp(procs, filter, selected) ==
    LET filtered == IF filter = << >> THEN procs ELSE filter_processes(procs, filter)
    IN  [filtered |-> filtered, selected |-> selected]

\* update_filtered_processes: the new filtered list and the new cursor
update_filtered_processes(procs, filter, selected) ==
    LET filtered == IF filter = << >> THEN procs ELSE filter_processes(procs, filter)
    IN  [filtered |-> filtered,
         selected |-> IF selected >= Len(filtered) THEN 0 ELSE selected]

(***************************************************************************)
(* The raw lines a strace subprocess writes in the state machine.          *)
(***************************************************************************)
TraceLines ==
    { <<"b", "(">>,
      <<" ", "k", "b", "(", "1">>,
      <<"1", "b", "(">> }

(***************************************************************************)
(* State.                                                                  *)
(***************************************************************************)
VARIABLES
    loop,                \* run_app: "running", "returned" or "panicked"
    mode,                \* App.mode
    processes,           \* App.processes
    filtered_processes,  \* App.filtered_processes
    process_filter,      \* App.process_filter
    selected_process,    \* App.selected_process
    target_pid,          \* App.target_pid
    target_process_name, \* App.target_process_name
    unique_syscalls,     \* App.unique_syscalls
    syscall_log,         \* App.syscall_log
    filter_mode,         \* App.filter_mode
    syscall_filter,      \* App.syscall_filter
    filtered_syscalls,   \* App.filtered_syscalls
    strace_child,        \* App.strace_child: None or Some(session)
    strace_receiver,     \* App.strace_receiver: None or Some(session)
    spawned,             \* the number of strace subprocesses spawned so far
    child_state,         \* per session: "unborn", "running", "exited", "reaped"
    stderr_pipe,         \* per session: lines written to stderr, not yet read
    channel,             \* per session: lines sent on the mpsc channel, not yet received
    directory,           \* the processes running now
    emitted,             \* history: the lines the held subprocess has written, each
                         \* with whether filter mode was active when it was written
    signal_result,       \* history: None, or Some of the pid and the result of the
                         \* signal::kill of the latest session
    tick_seen,           \* history: in this visit of the selection screen a tick
                         \* was handled after the directory last changed
    p_line,              \* the raw line handed to parse_syscall on its own
    p_done,              \* whether parse_syscall has run on it
    p_out                \* the result of that run

selVars == <<processes, filtered_processes, process_filter, selected_process>>

monVars == <<target_pid, target_process_name, unique_syscalls, syscall_log>>

fltVars == <<filter_mode, syscall_filter, filtered_syscalls>>

sessVars == <<strace_child, strace_receiver>>

osVars == <<spawned, child_state, stderr_pipe, channel>>

pureVars == <<p_line, p_done, p_out>>

vars == <<loop, mode, selVars, monVars, fltVars, sessVars, osVars, directory,
          emitted, signal_result, tick_seen, pureVars>>

Sessions == 1..MaxSessions

\* App::new, with the state of the operating system around it
Init ==
    /\ loop = "running"
    /\ mode = "ProcessSelection"
    /\ directory = ProcessUniverse
    /\ processes = get_processes(directory)
    /\ filtered_processes = processes
    /\ process_filter = << >>
    /\ selected_process = 0
    /\ target_pid = 0
    /\ target_process_name = << >>
    /\ unique_syscalls = {}
    /\ syscall_log = << >>
    /\ filter_mode = FALSE
    /\ syscall_filter = << >>
    /\ filtered_syscalls = << >>
    /\ strace_child = None
    /\ strace_receiver = None
    /\ spawned = 0
    /\ child_state = [s \in Sessions |-> "unborn"]
    /\ stderr_pipe = [s \in Sessions |-> << >>]
    /\ channel = [s \in Sessions |-> << >>]
    /\ emitted = << >>
    /\ signal_result = None
    /\ tick_seen = FALSE
    /\ p_line = << >>
    /\ p_done = FALSE
    /\ p_out = None

(***************************************************************************)
(* Ingestion (src/src/main.rs:320-326).                                    *)
(***************************************************************************)
\* a slip: the name is pushed whether or not the insert found it new
ingest_line_no_dedup(st, line) ==
    LET parsed == parse_syscall(line)
    IN  IF parsed = None THEN st
        ELSE [set |-> st.set \cup {parsed[1]}, log |-> Append(st.log, parsed[1])]

\* the body of the drain loop, on the pair (unique_syscalls, syscall_log)
ingest_line(st, line) ==
    LET parsed == parse_syscall(line)
    IN  IF parsed = None THEN st
        ELSE IF parsed[1] \in st.set THEN st
        ELSE [set |-> st.set \cup {parsed[1]}, log |-> Append(st.log, parsed[1])]

\* a slip: if let in place of while let, only the first line is ingested
ingest_first_only(st, lines) ==
    IF lines = << >> THEN st ELSE ingest_line(st, Head(lines))

\* while let Ok(line) = rx.try_recv(): the lines in the order they were sent
RECURSIVE ingest(_, _)
ingest(st, lines) ==
    IF lines = << >> THEN st
    ELSE ingest(ingest_line(st, Head(lines)), Tail(lines))

(***************************************************************************)
(* The Trace Session (src/src/main.rs:146-180).                            *)
(***************************************************************************)
\* start_strace when Command::spawn succeeds: the subprocess runs, the reader
\* thread and the channel exist, and the handles are stored
start_strace_ok ==
    /\ spawned' = spawned + 1
    /\ child_state' = [child_state EXCEPT ![spawned + 1] = "running"]
    /\ strace_child' = Some(spawned + 1)
    /\ strace_receiver' = Some(spawned + 1)
    /\ emitted' = << >>
    /\ UNCHANGED <<loop, stderr_pipe, channel>>

\* start_strace when Command::spawn fails: expect() panics
start_strace_failed ==
    /\ loop' = "panicked"
    /\ UNCHANGED <<sessVars, osVars, emitted>>

\* a slip: the handle is dropped without kill() and wait()
stop_strace_no_reap ==
    /\ strace_child' = None
    /\ strace_receiver' = None
    /\ channel' = IF strace_receiver = None THEN channel
                  ELSE [channel EXCEPT ![strace_receiver[1]] = << >>]
    /\ emitted' = << >>
    /\ UNCHANGED <<child_state, spawned, stderr_pipe>>

\* stop_strace: the subprocess is killed and reaped, the receiver is dropped
\* and with it what the channel still holds
stop_strace ==
    /\ strace_child' = None
    /\ strace_receiver' = None
    /\ child_state' = IF strace_child = None THEN child_state
                      ELSE [child_state EXCEPT ![strace_child[1]] = "reaped"]
    /\ channel' = IF strace_receiver = None THEN channel
                  ELSE [channel EXCEPT ![strace_receiver[1]] = << >>]
    /\ emitted' = << >>
    /\ UNCHANGED <<spawned, stderr_pipe>>

\* a slip: the list of the previous visit is filtered again, without a refresh
refresh_processes_stale ==
    /\ processes' = processes
    /\ LET u == update_filtered_processes(processes', process_filter, selected_process)
       IN  /\ filtered_processes' = u.filtered
           /\ selected_process' = u.selected
    /\ UNCHANGED process_filter

\* the list is refreshed from the directory and filtered again
refresh_processes ==
    /\ processes' = get_processes(directory)
    /\ LET u == update_filtered_processes(processes', process_filter, selected_process)
       IN  /\ filtered_processes' = u.filtered
           /\ selected_process' = u.selected
    /\ UNCHANGED process_filter

\* the four statements that end a session (src/src/main.rs:290-293, 298-301, 332-335)
teardown ==
    /\ stop_strace
    /\ mode' = "ProcessSelection"
    /\ refresh_processes

(***************************************************************************)
(* run_app: the key handlers of the selection screen                       *)
(* (src/src/main.rs:232-267).                                              *)
(***************************************************************************)
Running == loop = "running"

\* KeyCode::Char('q'): return Ok(())
SelQuit ==
    /\ Running /\ mode = "ProcessSelection"
    /\ loop' = "returned"
    /\ UNCHANGED <<mode, selVars, monVars, fltVars, sessVars, osVars, directory,
                   emitted, signal_result, tick_seen, pureVars>>

\* KeyCode::Char(c), c other than 'q'
SelChar(c) ==
    /\ Running /\ mode = "ProcessSelection"
    /\ c # "q"
    /\ Len(process_filter) < MaxProcFilter
    /\ process_filter' = Append(process_filter, c)
    /\ LET u == update_filtered_processes(processes, process_filter', selected_process)
       IN  /\ filtered_processes' = u.filtered
           /\ selected_process' = u.selected
    /\ UNCHANGED <<loop, mode, processes, monVars, fltVars, sessVars, osVars,
                   directory, emitted, signal_result, tick_seen, pureVars>>

\* KeyCode::Backspace
SelBackspace ==
    /\ Running /\ mode = "ProcessSelection"
    /\ process_filter' = IF process_filter = << >> THEN << >>
                         ELSE SubSeq(process_filter, 1, Len(process_filter) - 1)
    /\ LET u == update_filtered_processes(processes, process_filter', selected_process)
       IN  /\ filtered_processes' = u.filtered
           /\ selected_process' = u.selected
    /\ UNCHANGED <<loop, mode, processes, monVars, fltVars, sessVars, osVars,
                   directory, emitted, signal_result, tick_seen, pureVars>>

\* KeyCode::Down
SelDown ==
    /\ Running /\ mode = "ProcessSelection"
    /\ selected_process' = IF selected_process + 1 < Len(filtered_processes)
                           THEN selected_process + 1 ELSE selected_process
    /\ UNCHANGED <<loop, mode, processes, filtered_processes, process_filter,
                   monVars, fltVars, sessVars, osVars, directory, emitted,
                   signal_result, tick_seen, pureVars>>

\* KeyCode::Up
SelUp ==
    /\ Running /\ mode = "ProcessSelection"
    /\ selected_process' = IF selected_process > 0
                           THEN selected_process - 1 ELSE selected_process
    /\ UNCHANGED <<loop, mode, processes, filtered_processes, process_filter,
                   monVars, fltVars, sessVars, osVars, directory, emitted,
                   signal_result, tick_seen, pureVars>>

\* a slip: Enter does not reset filter_mode and syscall_filter
SelEnterKeepsFilter ==
    /\ Running /\ mode = "ProcessSelection"
    /\ IF filtered_processes = << >>
       THEN UNCHANGED vars
       ELSE /\ spawned < MaxSessions
            /\ LET proc == filtered_processes[selected_process + 1]
               IN  /\ target_pid' = proc.pid
                   /\ target_process_name' = proc.name
            /\ mode' = "SyscallMonitoring"
            /\ unique_syscalls' = {}
            /\ syscall_log' = << >>
            /\ filtered_syscalls' = << >>
            /\ \/ start_strace_ok
               \/ start_strace_failed
            /\ signal_result' = None
            /\ tick_seen' = FALSE
            /\ UNCHANGED <<selVars, filter_mode, syscall_filter, directory, pureVars>>

\* KeyCode::Enter: with an empty list nothing happens; otherwise the fields
\* are assigned and start_strace runs, and its spawn succeeds or fails
SelEnter ==
    /\ Running /\ mode = "ProcessSelection"
    /\ IF filtered_processes = << >>
       THEN UNCHANGED vars
       ELSE /\ spawned < MaxSessions
            /\ LET proc == filtered_processes[selected_process + 1]
               IN  /\ target_pid' = proc.pid
                   /\ target_process_name' = proc.name
            /\ mode' = "SyscallMonitoring"
            /\ unique_syscalls' = {}
            /\ syscall_log' = << >>
            /\ filter_mode' = FALSE
            /\ syscall_filter' = << >>
            /\ filtered_syscalls' = << >>
            /\ \/ start_strace_ok
               \/ start_strace_failed
            /\ signal_result' = None
            /\ tick_seen' = FALSE
            /\ UNCHANGED <<selVars, directory, pureVars>>

(***************************************************************************)
(* run_app: the key handlers of the monitoring screen                      *)
(* (src/src/main.rs:268-310).                                              *)
(***************************************************************************)
\* update_filtered_syscalls on the state the handler has reached: the HashSet
\* iterates in one of its orders
update_filtered_syscalls ==
    \E order \in Orders(unique_syscalls) :
        filtered_syscalls' = search(order, syscall_filter')

\* filter mode, KeyCode::Char(c): every character, 'q', 'b', 'k' and 'f' too
FilterChar(c) ==
    /\ Running /\ mode = "SyscallMonitoring" /\ filter_mode
    /\ Len(syscall_filter) < MaxQuery
    /\ syscall_filter' = Append(syscall_filter, c)
    /\ update_filtered_syscalls
    /\ UNCHANGED <<loop, mode, selVars, monVars, filter_mode, sessVars, osVars,
                   directory, emitted, signal_result, tick_seen, pureVars>>

\* a slip: Backspace pops the query without update_filtered_syscalls
FilterBackspaceNoUpdate ==
    /\ Running /\ mode = "SyscallMonitoring" /\ filter_mode
    /\ syscall_filter' = IF syscall_filter = << >> THEN << >>
                         ELSE SubSeq(syscall_filter, 1, Len(syscall_filter) - 1)
    /\ UNCHANGED <<loop, mode, selVars, monVars, filter_mode, filtered_syscalls,
                   sessVars, osVars, directory, emitted, signal_result, tick_seen,
                   pureVars>>

\* filter mode, KeyCode::Backspace
FilterBackspace ==
    /\ Running /\ mode = "SyscallMonitoring" /\ filter_mode
    /\ syscall_filter' = IF syscall_filter = << >> THEN << >>
                         ELSE SubSeq(syscall_filter, 1, Len(syscall_filter) - 1)
    /\ update_filtered_syscalls
    /\ UNCHANGED <<loop, mode, selVars, monVars, filter_mode, sessVars, osVars,
                   directory, emitted, signal_result, tick_seen, pureVars>>

\* a slip: Enter | Esc leaves filter mode and keeps the query
FilterExitKeepsQuery ==
    /\ Running /\ mode = "SyscallMonitoring" /\ filter_mode
    /\ filter_mode' = FALSE
    /\ UNCHANGED <<loop, mode, selVars, monVars, syscall_filter, filtered_syscalls,
                   sessVars, osVars, directory, emitted, signal_result, tick_seen,
                   pureVars>>

\* filter mode, KeyCode::Enter | KeyCode::Esc
FilterExit ==
    /\ Running /\ mode = "SyscallMonitoring" /\ filter_mode
    /\ filter_mode' = FALSE
    /\ syscall_filter' = << >>
    /\ UNCHANGED <<loop, mode, selVars, monVars, filtered_syscalls, sessVars,
                   osVars, directory, emitted, signal_result, tick_seen, pureVars>>

\* a slip: 'q' | 'b' leaves the screen without stopping the session
MonBackNoStop ==
    /\ Running /\ mode = "SyscallMonitoring" /\ ~filter_mode
    /\ mode' = "ProcessSelection"
    /\ refresh_processes
    /\ UNCHANGED <<loop, monVars, fltVars, sessVars, osVars, directory, emitted,
                   signal_result, tick_seen, pureVars>>

\* live monitoring, KeyCode::Char('q') | KeyCode::Char('b')
MonBack ==
    /\ Running /\ mode = "SyscallMonitoring" /\ ~filter_mode
    /\ teardown
    /\ UNCHANGED <<loop, monVars, fltVars, directory, signal_result, tick_seen, pureVars>>

\* a slip: the teardown of 'k' clears the set and the log as well
MonKillClears ==
    /\ Running /\ mode = "SyscallMonitoring" /\ ~filter_mode
    /\ \E result \in {"ok", "err"} :
           signal_result' = Some([pid |-> target_pid, result |-> result])
    /\ teardown
    /\ unique_syscalls' = {}
    /\ syscall_log' = << >>
    /\ UNCHANGED <<loop, target_pid, target_process_name, fltVars, directory,
                   tick_seen, pureVars>>

\* live monitoring, KeyCode::Char('k'): signal::kill succeeds or fails, its
\* result is discarded, and the session ends as for 'b'
MonKill ==
    /\ Running /\ mode = "SyscallMonitoring" /\ ~filter_mode
    /\ \E result \in {"ok", "err"} :
           signal_result' = Some([pid |-> target_pid, result |-> result])
    /\ teardown
    /\ UNCHANGED <<loop, monVars, fltVars, directory, tick_seen, pureVars>>

\* live monitoring, KeyCode::Char('f')
MonFilter ==
    /\ Running /\ mode = "SyscallMonitoring" /\ ~filter_mode
    /\ filter_mode' = TRUE
    /\ syscall_filter' = syscall_filter
    /\ update_filtered_syscalls
    /\ UNCHANGED <<loop, mode, selVars, monVars, sessVars, osVars, directory,
                   emitted, signal_result, tick_seen, pureVars>>

(***************************************************************************)
(* run_app: the tick (src/src/main.rs:316-340).                            *)
(***************************************************************************)
\* a slip: the guard on filter_mode is missing
tick_drains_always == strace_receiver # None

\* whether the tick drains the channel: monitoring, filter mode off, a receiver
tick_drains == ~filter_mode /\ strace_receiver # None

\* if let Ok(Some(_)) = child.try_wait(): the subprocess has ended by itself
child_has_exited ==
    /\ strace_child # None
    /\ child_state[strace_child[1]] = "exited"

\* the tick on the selection screen: only last_tick is reset
TickSelection ==
    /\ Running /\ mode = "ProcessSelection"
    /\ tick_seen' = TRUE
    /\ UNCHANGED <<loop, mode, selVars, monVars, fltVars, sessVars, osVars,
                   directory, emitted, signal_result, pureVars>>

\* a slip: the exit check comes before the drain, so a tick that finds the
\* subprocess ended tears the session down without ingesting
TickMonitoringExitFirst ==
    /\ Running /\ mode = "SyscallMonitoring"
    /\ IF child_has_exited
       THEN /\ teardown
            /\ UNCHANGED <<unique_syscalls, syscall_log>>
       ELSE /\ LET st == IF tick_drains
                         THEN ingest([set |-> unique_syscalls, log |-> syscall_log],
                                     channel[strace_receiver[1]])
                         ELSE [set |-> unique_syscalls, log |-> syscall_log]
               IN  /\ unique_syscalls' = st.set
                   /\ syscall_log' = st.log
            /\ channel' = IF tick_drains
                          THEN [channel EXCEPT ![strace_receiver[1]] = << >>]
                          ELSE channel
            /\ UNCHANGED <<mode, selVars, sessVars, spawned, child_state,
                           stderr_pipe, emitted>>
    /\ UNCHANGED <<loop, target_pid, target_process_name, fltVars, directory,
                   signal_result, tick_seen, pureVars>>

\* a slip: the exit check is nested under the filter_mode guard of the drain
TickMonitoringExitUnderGuard ==
    /\ Running /\ mode = "SyscallMonitoring"
    /\ LET st == IF tick_drains
                 THEN ingest([set |-> unique_syscalls, log |-> syscall_log],
                             channel[strace_receiver[1]])
                 ELSE [set |-> unique_syscalls, log |-> syscall_log]
       IN  /\ unique_syscalls' = st.set
           /\ syscall_log' = st.log
    /\ IF child_has_exited /\ ~filter_mode
       THEN teardown
       ELSE /\ channel' = IF tick_drains
                          THEN [channel EXCEPT ![strace_receiver[1]] = << >>]
                          ELSE channel
            /\ UNCHANGED <<mode, selVars, sessVars, spawned, child_state,
                           stderr_pipe, emitted>>
    /\ UNCHANGED <<loop, target_pid, target_process_name, fltVars, directory,
                   signal_result, tick_seen, pureVars>>

\* the tick on the monitoring screen: the drain, then the exit check
TickMonitoring ==
    /\ Running /\ mode = "SyscallMonitoring"
    /\ LET st == IF tick_drains
                 THEN ingest([set |-> unique_syscalls, log |-> syscall_log],
                             channel[strace_receiver[1]])
                 ELSE [set |-> unique_syscalls, log |-> syscall_log]
       IN  /\ unique_syscalls' = st.set
           /\ syscall_log' = st.log
    /\ IF child_has_exited
       THEN teardown
       ELSE /\ channel' = IF tick_drains
                          THEN [channel EXCEPT ![strace_receiver[1]] = << >>]
                          ELSE channel
            /\ UNCHANGED <<mode, selVars, sessVars, spawned, child_state,
                           stderr_pipe, emitted>>
    /\ UNCHANGED <<loop, target_pid, target_process_name, fltVars, directory,
                   signal_result, tick_seen, pureVars>>

(***************************************************************************)
(* The world around the loop: the subprocess, the reader thread, the       *)
(* processes of the system.                                                *)
(***************************************************************************)
\* the strace subprocess writes a line to its stderr, while it has written
\* fewer than limit lines
EmitWithin(limit, s, line) ==
    /\ Running
    /\ child_state[s] = "running"
    /\ Len(stderr_pipe[s]) < PipeCap
    /\ Len(emitted) < limit
    /\ stderr_pipe' = [stderr_pipe EXCEPT ![s] = Append(@, line)]
    /\ emitted' = IF strace_child = Some(s)
                  THEN Append(emitted, [line |-> line, held |-> filter_mode])
                  ELSE emitted
    /\ UNCHANGED <<loop, mode, selVars, monVars, fltVars, sessVars, spawned,
                   child_state, channel, directory, signal_result, tick_seen, pureVars>>

Emit(s, line) == EmitWithin(MaxEmit, s, line)

SessionEmit(s, line) == EmitWithin(MaxSessionEmit, s, line)

\* a slip: the line is put at the front of the channel
ReaderForwardLifo(s) ==
    /\ Running
    /\ stderr_pipe[s] # << >>
    /\ stderr_pipe' = [stderr_pipe EXCEPT ![s] = Tail(@)]
    /\ channel' = IF strace_receiver = Some(s)
                  THEN [channel EXCEPT ![s] = <<Head(stderr_pipe[s])>> \o @]
                  ELSE channel
    /\ UNCHANGED <<loop, mode, selVars, monVars, fltVars, sessVars, spawned,
                   child_state, directory, emitted, signal_result, tick_seen, pureVars>>

\* a slip: one channel is shared by the sessions, so the reader of an earlier
\* session sends into the channel the App holds now
ReaderForwardShared(s) ==
    /\ Running
    /\ stderr_pipe[s] # << >>
    /\ stderr_pipe' = [stderr_pipe EXCEPT ![s] = Tail(@)]
    /\ channel' = IF strace_receiver # None
                  THEN [channel EXCEPT ![strace_receiver[1]] =
                                           Append(@, Head(stderr_pipe[s]))]
                  ELSE channel
    /\ UNCHANGED <<loop, mode, selVars, monVars, fltVars, sessVars, spawned,
                   child_state, directory, emitted, signal_result, tick_seen, pureVars>>

\* the reader thread (src/src/main.rs:160-167): one line read from stderr and
\* sent; with the receiver dropped the send fails and the line is discarded
ReaderForward(s) ==
    /\ Running
    /\ stderr_pipe[s] # << >>
    /\ stderr_pipe' = [stderr_pipe EXCEPT ![s] = Tail(@)]
    /\ channel' = IF strace_receiver = Some(s)
                  THEN [channel EXCEPT ![s] = Append(@, Head(stderr_pipe[s]))]
                  ELSE channel
    /\ UNCHANGED <<loop, mode, selVars, monVars, fltVars, sessVars, spawned,
                   child_state, directory, emitted, signal_result, tick_seen, pureVars>>

\* the strace subprocess ends by itself: its target is gone, or it could not attach
ChildExit(s) ==
    /\ Running
    /\ child_state[s] = "running"
    /\ child_state' = [child_state EXCEPT ![s] = "exited"]
    /\ UNCHANGED <<loop, mode, selVars, monVars, fltVars, sessVars, spawned,
                   stderr_pipe, channel, directory, emitted, signal_result, tick_seen, pureVars>>

\* a process of the system, other than init, starts or ends
DirectoryChange(p) ==
    /\ Running
    /\ p.pid # 1
    /\ directory' = IF p \in directory THEN directory \ {p} ELSE directory \cup {p}
    /\ tick_seen' = FALSE
    /\ UNCHANGED <<loop, mode, selVars, monVars, fltVars, sessVars, osVars,
                   emitted, signal_result, pureVars>>

Next ==
    \/ SelQuit
    \/ \E c \in TypedChars : SelChar(c)
    \/ SelBackspace
    \/ SelDown
    \/ SelUp
    \/ SelEnter
    \/ \E c \in TypedChars : FilterChar(c)
    \/ FilterBackspace
    \/ FilterExit
    \/ MonBack
    \/ MonKill
    \/ MonFilter
    \/ TickSelection
    \/ TickMonitoring
    \/ \E s \in Sessions, line \in TraceLines : Emit(s, line)
    \/ \E s \in Sessions : ReaderForward(s)
    \/ \E s \in Sessions : ChildExit(s)
    \/ \E p \in ProcessUniverse : DirectoryChange(p)

Spec == Init /\ [][Next]_vars

(***************************************************************************)
(* The two screens with a subprocess that writes nothing: every key and    *)
(* both ticks, the subprocess ending by itself, the processes of the       *)
(* system starting and ending.                                             *)
(***************************************************************************)
NextScreens ==
    \/ SelQuit
    \/ \E c \in TypedChars : SelChar(c)
    \/ SelBackspace
    \/ SelDown
    \/ SelUp
    \/ SelEnter
    \/ \E c \in TypedChars : FilterChar(c)
    \/ FilterBackspace
    \/ FilterExit
    \/ MonBack
    \/ MonKill
    \/ MonFilter
    \/ TickSelection
    \/ TickMonitoring
    \/ \E s \in Sessions : ChildExit(s)
    \/ \E p \in ProcessUniverse : DirectoryChange(p)

SpecScreens == Init /\ [][NextScreens]_vars

\* the same with the tick handled again and again: the loop waits for a key
\* no longer than what is left of the tick period (src/src/main.rs:226-229),
\* so keys cannot keep the tick from being handled
SpecScreensFair == SpecScreens /\ WF_vars(TickMonitoring)

(***************************************************************************)
(* parse_syscall on its own: every raw line up to MaxLine characters.      *)
(***************************************************************************)
InitParse ==
    /\ loop = "running"
    /\ mode = "ProcessSelection"
    /\ directory = ProcessUniverse
    /\ processes = get_processes(directory)
    /\ filtered_processes = processes
    /\ process_filter = << >>
    /\ selected_process = 0
    /\ target_pid = 0
    /\ target_process_name = << >>
    /\ unique_syscalls = {}
    /\ syscall_log = << >>
    /\ filter_mode = FALSE
    /\ syscall_filter = << >>
    /\ filtered_syscalls = << >>
    /\ strace_child = None
    /\ strace_receiver = None
    /\ spawned = 0
    /\ child_state = [s \in Sessions |-> "unborn"]
    /\ stderr_pipe = [s \in Sessions |-> << >>]
    /\ channel = [s \in Sessions |-> << >>]
    /\ emitted = << >>
    /\ signal_result = None
    /\ tick_seen = FALSE
    /\ p_line \in StringsUpTo(LineChars, MaxLine)
    /\ p_done = FALSE
    /\ p_out = None

ParseStep ==
    /\ ~p_done
    /\ p_out' = parse_syscall(p_line)
    /\ p_done' = TRUE
    /\ UNCHANGED <<loop, mode, selVars, monVars, fltVars, sessVars, osVars,
                   directory, emitted, signal_result, tick_seen, p_line>>

NextParse == ParseStep

SpecParse == InitParse /\ [][NextParse]_vars

(***************************************************************************)
(* The filter sub-machine on its own: a session that has ingested the      *)
(* names of a set of up to MaxSet names, and the keys of the monitoring    *)
(* screen that enter filter mode, edit the query and leave filter mode.    *)
(***************************************************************************)
NameUniverse == StringsUpTo({"b", "k"}, 2) \ {<< >>}

InitFilter ==
    /\ loop = "running"
    /\ mode = "SyscallMonitoring"
    /\ directory = ProcessUniverse
    /\ processes = get_processes(directory)
    /\ filtered_processes = processes
    /\ process_filter = << >>
    /\ selected_process = 0
    /\ target_pid = 2
    /\ target_process_name = <<"b">>
    /\ unique_syscalls \in {set \in SUBSET NameUniverse : Cardinality(set) <= MaxSet}
    /\ syscall_log \in Orders(unique_syscalls)
    /\ filter_mode = FALSE
    /\ syscall_filter = << >>
    /\ filtered_syscalls = << >>
    /\ strace_child = Some(1)
    /\ strace_receiver = Some(1)
    /\ spawned = 1
    /\ child_state = [s \in Sessions |-> IF s = 1 THEN "running" ELSE "unborn"]
    /\ stderr_pipe = [s \in Sessions |-> << >>]
    /\ channel = [s \in Sessions |-> << >>]
    /\ emitted = [i \in 1..Len(syscall_log) |->
                     [line |-> Append(syscall_log[i], "("), held |-> FALSE]]
    /\ signal_result = None
    /\ tick_seen = FALSE
    /\ p_line = << >>
    /\ p_done = FALSE
    /\ p_out = None

NextFilter ==
    \/ MonFilter
    \/ \E c \in TypedChars : FilterChar(c)
    \/ FilterBackspace
    \/ FilterExit

SpecFilter == InitFilter /\ [][NextFilter]_vars

(***************************************************************************)
(* One session on its own: the state Enter leaves on the first visit of    *)
(* the selection screen, the keys and the tick of the monitoring screen,   *)
(* and the subprocess writing up to MaxSessionEmit lines.                  *)
(***************************************************************************)
InitSession ==
    /\ loop = "running"
    /\ mode = "SyscallMonitoring"
    /\ directory = ProcessUniverse
    /\ processes = get_processes(directory)
    /\ filtered_processes = processes
    /\ process_filter = << >>
    /\ selected_process \in {0, 1}
    /\ target_pid = filtered_processes[selected_process + 1].pid
    /\ target_process_name = filtered_processes[selected_process + 1].name
    /\ unique_syscalls = {}
    /\ syscall_log = << >>
    /\ filter_mode = FALSE
    /\ syscall_filter = << >>
    /\ filtered_syscalls = << >>
    /\ strace_child = Some(1)
    /\ strace_receiver = Some(1)
    /\ spawned = 1
    /\ child_state = [s \in Sessions |-> IF s = 1 THEN "running" ELSE "unborn"]
    /\ stderr_pipe = [s \in Sessions |-> << >>]
    /\ channel = [s \in Sessions |-> << >>]
    /\ emitted = << >>
    /\ signal_result = None
    /\ tick_seen = FALSE
    /\ p_line = << >>
    /\ p_done = FALSE
    /\ p_out = None

NextSession ==
    \/ \E c \in TypedChars : FilterChar(c)
    \/ FilterBackspace
    \/ FilterExit
    \/ MonBack
    \/ MonKill
    \/ MonFilter
    \/ TickMonitoring
    \/ \E s \in Sessions, line \in TraceLines : SessionEmit(s, line)
    \/ \E s \in Sessions : ReaderForward(s)
    \/ \E s \in Sessions : ChildExit(s)

SpecSession == InitSession /\ [][NextSession]_vars

(***************************************************************************)
(* A session whose subprocess ends before the first tick: the state Enter  *)
(* leaves, what the subprocess, the reader thread and the keys can do      *)
(* before the first tick, and that tick, which finds the subprocess ended. *)
(***************************************************************************)
\* a step of the tick that finds the subprocess ended
TickExit == TickMonitoring /\ child_has_exited

NextImmediateExit ==
    \/ \E c \in TypedChars : FilterChar(c)
    \/ FilterBackspace
    \/ FilterExit
    \/ MonBack
    \/ MonKill
    \/ MonFilter
    \/ TickExit
    \/ \E s \in Sessions, line \in TraceLines : SessionEmit(s, line)
    \/ \E s \in Sessions : ReaderForward(s)
    \/ \E s \in Sessions : ChildExit(s)

SpecImmediateExit == InitSession /\ [][NextImmediateExit]_vars

(***************************************************************************)
(* Claims.                                                                 *)
(***************************************************************************)
\* the strace subprocesses that exist: running, or ended and not yet reaped
Unreaped == {s \in Sessions : child_state[s] \in {"running", "exited"}}

Range(seq) == {seq[i] : i \in 1..Len(seq)}

\* C1: in every reachable state at most one strace subprocess exists, the one
\* that exists is the one the App holds and is the latest one spawned (none
\* is used again), and on the selection screen, where Enter starts a session,
\* the App holds no subprocess and no receiver and none is left un-reaped.
C1_AtMostOneSession ==
    /\ Cardinality(Unreaped) <= 1
    /\ \A s \in Unreaped : strace_child = Some(s) /\ s = spawned
    /\ (mode = "ProcessSelection") =>
           /\ strace_child = None
           /\ strace_receiver = None
           /\ Unreaped = {}

\* C1 witness: a second session runs after the first one was stopped and reaped
C1_Witness ==
    /\ spawned = 2
    /\ child_state[1] = "reaped"
    /\ child_state[2] = "running"
    /\ strace_child = Some(2)
    /\ mode = "SyscallMonitoring"

\* the state a teardown leaves: the selection screen, no session, no
\* subprocess left, the channel dropped, the list a snapshot of the directory
\* of that moment, filtered by the current filter, the cursor inside it
AfterTeardown ==
    /\ mode' = "ProcessSelection"
    /\ strace_child' = None
    /\ strace_receiver' = None
    /\ \A s \in Sessions : child_state'[s] \in {"unborn", "reaped"}
    /\ \A s \in Sessions : channel'[s] = << >>
    /\ \A p \in ProcessUniverse : (p \in Range(processes')) <=> (p \in directory)
    /\ Len(processes') = Cardinality(directory)
    /\ \A i, j \in 1..Len(processes') : i < j => processes'[i].pid < processes'[j].pid
    /\ \A p \in ProcessUniverse :
           (p \in Range(filtered_processes')) <=>
               /\ p \in directory
               /\ \/ process_filter' = << >>
                  \/ process_matches(p, process_filter')
    /\ selected_process' < Len(filtered_processes') \/ selected_process' = 0

\* C2: every back/quit, kill and target-exit step, and every step from the
\* monitoring to the selection screen, ends in the selection screen with the
\* session handle and the channel cleared, the subprocess reaped, and the
\* process list snapshotted and filtered in that step; a kill step does so
\* whatever the result of the signal.
C2_TeardownLeavesSelection ==
    [][ (\/ MonBack
         \/ MonKill
         \/ TickExit
         \/ (mode = "SyscallMonitoring" /\ mode' = "ProcessSelection"))
        => AfterTeardown ]_vars

\* C2 witness: after a kill whose signal failed, the selection screen with no
\* session, and a list that has changed across the session
C2_Witness ==
    /\ mode = "ProcessSelection"
    /\ signal_result # None
    /\ signal_result[1].result = "err"
    /\ strace_child = None
    /\ child_state[1] = "reaped"
    /\ Len(processes) = 1
    /\ directory = Range(processes)

\* C3: a step of Enter on a non-empty list in which no subprocess comes to
\* exist (the spawn failed) leaves the loop running, the mode Selection and
\* no session.
C3_SpawnFailureKeepsSelection ==
    [][ (SelEnter /\ filtered_processes # << >> /\ spawned' = spawned)
        => /\ loop' = "running"
           /\ mode' = "ProcessSelection"
           /\ strace_child' = None
           /\ strace_receiver' = None ]_vars

\* the keys of back/quit and kill
BackQuitKillKeys == {"q", "b", "k"}

\* C4, as stated: on the monitoring screen, with the filter inactive or
\* active, a step that handles the back/quit or the kill key stops the session
\* and ends in the selection screen.
C4_BackKillFromEveryMonitoringState ==
    [][ (\/ MonBack
         \/ MonKill
         \/ \E c \in BackQuitKillKeys : FilterChar(c))
        => /\ mode' = "ProcessSelection"
           /\ strace_child' = None
           /\ strace_receiver' = None ]_vars

\* C4, what the handlers do: with the filter inactive a back/quit step stops
\* the session and ends in the selection screen, and a kill step first
\* signals target_pid and then does the same; with the filter active the same
\* keys are appended to the query, and the mode and the session stay as they
\* are.
C4_BackKillWithFilterInactive ==
    [][ /\ (MonBack \/ MonKill) =>
               /\ ~filter_mode
               /\ mode' = "ProcessSelection"
               /\ strace_child' = None
               /\ strace_receiver' = None
               /\ \A s \in Sessions : child_state'[s] \in {"unborn", "reaped"}
        /\ MonKill =>
               /\ signal_result' # None
               /\ signal_result'[1].pid = target_pid
        /\ \A c \in BackQuitKillKeys :
               FilterChar(c) =>
                   /\ mode' = "SyscallMonitoring"
                   /\ filter_mode'
                   /\ strace_child' = strace_child
                   /\ strace_receiver' = strace_receiver
                   /\ child_state' = child_state
                   /\ syscall_filter' = Append(syscall_filter, c) ]_vars

\* C4 witness: the selection screen after a kill whose signal was delivered
\* to the target
C4_Witness ==
    /\ mode = "ProcessSelection"
    /\ signal_result # None
    /\ signal_result[1].result = "ok"
    /\ signal_result[1].pid = target_pid
    /\ strace_child = None
    /\ spawned = 1
    /\ child_state[1] = "reaped"

\* C5: no name is twice in syscall_log, the names of syscall_log are the
\* members of unique_syscalls, and ingesting a line whose name is present
\* changes neither.
C5_NoDuplicates ==
    /\ \A i, j \in 1..Len(syscall_log) : syscall_log[i] = syscall_log[j] => i = j
    /\ Range(syscall_log) = unique_syscalls
    /\ \A line \in TraceLines :
           LET st == [set |-> unique_syscalls, log |-> syscall_log]
               parsed == parse_syscall(line)
           IN  (parsed # None /\ parsed[1] \in unique_syscalls)
                   => ingest_line(st, line) = st

\* the lines the held subprocess has written
EmittedLines == [i \in 1..Len(emitted) |-> emitted[i].line]

\* the lines of the held session that are written and not yet received
Undelivered ==
    IF strace_receiver = None THEN << >>
    ELSE channel[strace_receiver[1]] \o stderr_pipe[strace_receiver[1]]

\* C5 witness: the subprocess wrote the same name twice, both lines were
\* ingested, and the log holds the name once
C5_Witness ==
    /\ mode = "SyscallMonitoring"
    /\ Len(emitted) = 2
    /\ parse_syscall(emitted[1].line) # None
    /\ parse_syscall(emitted[1].line) = parse_syscall(emitted[2].line)
    /\ Undelivered = << >>
    /\ syscall_log = parse_syscall(emitted[1].line)

\* the names of the lines that parse, in the order of the lines
RECURSIVE ParsedNames(_)
ParsedNames(lines) ==
    IF lines = << >> THEN << >>
    ELSE parse_syscall(Head(lines)) \o ParsedNames(Tail(lines))

\* the first occurrence of each element, in order
RECURSIVE FirstOccurrences(_)
FirstOccurrences(names) ==
    IF names = << >> THEN << >>
    ELSE LET front == SubSeq(names, 1, Len(names) - 1)
             last == names[Len(names)]
         IN  IF last \in Range(front) THEN FirstOccurrences(front)
             ELSE Append(FirstOccurrences(front), last)

IsPrefix(a, b) == Len(a) <= Len(b) /\ SubSeq(b, 1, Len(a)) = a

\* C6: within a session the lines not yet received are the end of what the
\* subprocess wrote, in the order written, and syscall_log is the sequence of
\* first occurrences of the names of the lines received before them.
C6_LogIsFirstOccurrences ==
    (strace_receiver # None) =>
        LET received == Len(emitted) - Len(Undelivered)
        IN  /\ received >= 0
            /\ SubSeq(EmittedLines, received + 1, Len(emitted)) = Undelivered
            /\ syscall_log = FirstOccurrences(ParsedNames(SubSeq(EmittedLines, 1, received)))

\* C6 witness: three lines written and received, the third a repeat of the
\* first name after a second name; the log holds the two names in order
C6_Witness ==
    /\ strace_receiver # None
    /\ Len(emitted) = 3
    /\ Undelivered = << >>
    /\ Len(syscall_log) = 2
    /\ parse_syscall(emitted[1].line) = Some(syscall_log[1])
    /\ parse_syscall(emitted[2].line) = Some(syscall_log[2])
    /\ parse_syscall(emitted[3].line) = Some(syscall_log[1])

\* the line without its leading and trailing whitespace
Trimmed(line) ==
    LET n == Len(line)
        first == CHOOSE i \in 1..(n + 1) :
                     /\ \A k \in 1..(i - 1) : is_whitespace(line[k])
                     /\ i <= n => ~is_whitespace(line[i])
        last == CHOOSE j \in 0..n :
                     /\ \A k \in (j + 1)..n : is_whitespace(line[k])
                     /\ j >= 1 => ~is_whitespace(line[j])
    IN  SubSeq(line, first, last)

\* C7: parse_syscall returns None exactly when the line is empty after
\* trimming, or the first character of the trimmed line is not alphabetic, or
\* the line holds no '('; otherwise it returns the text of the trimmed line
\* before its first '('.
C7_ParseSyscall ==
    p_done =>
        LET t == Trimmed(p_line)
        IN  /\ (p_out = None) <=>
                   \/ t = << >>
                   \/ ~is_alphabetic(t[1])
                   \/ "(" \notin Range(p_line)
            /\ (p_out # None) =>
                   \E k \in 1..Len(t) :
                       /\ t[k] = "("
                       /\ \A m \in 1..(k - 1) : t[m] # "("
                       /\ p_out[1] = SubSeq(t, 1, k - 1)

\* C7 witness: a line with whitespace before the name and text after the
\* first '(' has been parsed to the name
C7_Witness ==
    /\ p_done
    /\ p_line = <<" ", "b", "(", "(">>
    /\ p_out = Some(<<"b">>)

\* the members of unique_syscalls that the query matches
Matching(query) == {n \in unique_syscalls : fuzzy_match(n, query) # None}

\* C8: in filter mode filtered_syscalls is what search returns for the set
\* and the query: with the empty query every member of the set once; with a
\* query no member matches the empty sequence; otherwise the members with a
\* score, each once, in order of non-increasing score.
C8_SearchResult ==
    (mode = "SyscallMonitoring" /\ filter_mode) =>
        LET r == filtered_syscalls
            q == syscall_filter
        IN  /\ \A i, j \in 1..Len(r) : r[i] = r[j] => i = j
            /\ q = << >> => Range(r) = unique_syscalls
            /\ (q # << >> /\ Matching(q) = {}) => r = << >>
            /\ q # << >> =>
                   /\ Range(r) = Matching(q)
                   /\ \A i, j \in 1..Len(r) :
                          i < j => fuzzy_match(r[i], q)[1] >= fuzzy_match(r[j], q)[1]

\* C8 witness: a query that matches two of three names with different
\* scores; the result holds the two, the better one first
C8_Witness ==
    /\ mode = "SyscallMonitoring"
    /\ filter_mode
    /\ syscall_filter # << >>
    /\ Cardinality(unique_syscalls) = 3
    /\ Len(filtered_syscalls) = 2
    /\ fuzzy_match(filtered_syscalls[1], syscall_filter)[1]
           > fuzzy_match(filtered_syscalls[2], syscall_filter)[1]

\* C9: no step from a monitoring state with filter mode active changes
\* unique_syscalls or syscall_log.
C9_NoIngestionInFilterMode ==
    [][ (mode = "SyscallMonitoring" /\ filter_mode)
        => /\ unique_syscalls' = unique_syscalls
           /\ syscall_log' = syscall_log ]_vars

\* C9 witness: filter mode is active and the channel holds a line, written
\* while it was active, whose name is not in the set
C9_Witness ==
    /\ mode = "SyscallMonitoring"
    /\ filter_mode
    /\ strace_receiver # None
    /\ channel[strace_receiver[1]] # << >>
    /\ parse_syscall(channel[strace_receiver[1]][1]) # None
    /\ parse_syscall(channel[strace_receiver[1]][1])[1] \notin unique_syscalls
    /\ emitted[Len(emitted)].held
    /\ Len(Undelivered) = 1

\* a line that was written while filter mode was active is not yet received
HeldUndelivered ==
    \E i \in (Len(emitted) - Len(Undelivered) + 1)..Len(emitted) : emitted[i].held

\* C10, as stated: a line written while filter mode was active is not
\* dropped: in every step from a state where such a line is undelivered the
\* session keeps its channel, the lines that leave the front of the
\* undelivered lines are ingested, in order, and none leaves while filter
\* mode is active.
C10_HeldLinesNeverDropped ==
    [][ (mode = "SyscallMonitoring" /\ strace_receiver # None /\ HeldUndelivered)
        => /\ strace_receiver' = strace_receiver
           /\ \E k \in 0..Len(Undelivered) :
                  LET st == ingest([set |-> unique_syscalls, log |-> syscall_log],
                                   SubSeq(Undelivered, 1, k))
                  IN  /\ filter_mode => k = 0
                      /\ IsPrefix(SubSeq(Undelivered, k + 1, Len(Undelivered)),
                                  Undelivered')
                      /\ unique_syscalls' = st.set
                      /\ syscall_log' = st.log ]_vars

\* C10, amended: while filter mode is active on the monitoring screen the
\* undelivered lines stay where they are, unless the tick finds the
\* subprocess ended and tears the session down; a tick with filter mode off
\* ingests every line the channel holds, in order and in one batch; and a
\* step that ends the session otherwise than by such a tick ingests nothing:
\* what is still buffered is dropped with the channel.
C10_HeldLinesKeptWhileSessionLives ==
    [][ /\ (mode = "SyscallMonitoring" /\ filter_mode /\ strace_receiver # None) =>
               \/ /\ strace_receiver' = strace_receiver
                  /\ IsPrefix(Undelivered, Undelivered')
                  /\ IsPrefix(channel[strace_receiver[1]], channel'[strace_receiver[1]])
               \/ /\ TickExit
                  /\ strace_receiver' = None
        /\ (TickMonitoring /\ ~filter_mode /\ strace_receiver # None) =>
               /\ syscall_log' = FirstOccurrences(
                      syscall_log \o ParsedNames(channel[strace_receiver[1]]))
               /\ unique_syscalls' = Range(syscall_log')
               /\ channel'[strace_receiver[1]] = << >>
        /\ (/\ mode = "SyscallMonitoring"
            /\ strace_receiver # None
            /\ strace_receiver' = None
            /\ (filter_mode \/ ~TickMonitoring)) =>
               /\ unique_syscalls' = unique_syscalls
               /\ syscall_log' = syscall_log
               /\ channel'[strace_receiver[1]] = << >> ]_vars

\* C10 witness: the first line was written while filter mode was active,
\* filter mode is off again, every line is received and the name of that
\* line is in the log
C10_Witness ==
    /\ mode = "SyscallMonitoring"
    /\ ~filter_mode
    /\ strace_receiver # None
    /\ Len(emitted) >= 2
    /\ emitted[1].held
    /\ emitted[2].held
    /\ Undelivered = << >>
    /\ Len(syscall_log) = 2
    /\ parse_syscall(emitted[1].line) = Some(syscall_log[1])
    /\ parse_syscall(emitted[2].line) = Some(syscall_log[2])

\* a step of Enter on a non-empty list: selectProcess
SelectProcess == SelEnter /\ filtered_processes # << >>

\* C11: a step that is not selectProcess only grows unique_syscalls and
\* syscall_log (nothing leaves the set, the log keeps what it held as its
\* beginning); a step in which something leaves them is selectProcess, and it
\* empties both; back/quit, kill, entering and leaving filter mode leave both
\* as they are, and the tick that finds the subprocess ended leaves them as
\* its own drain left them: the teardown removes nothing.
C11_SetAndLogOnlyGrow ==
    [][ /\ ~SelectProcess =>
               /\ unique_syscalls \subseteq unique_syscalls'
               /\ IsPrefix(syscall_log, syscall_log')
        /\ (~(unique_syscalls \subseteq unique_syscalls')
              \/ ~IsPrefix(syscall_log, syscall_log')) =>
               /\ SelectProcess
               /\ unique_syscalls' = {}
               /\ syscall_log' = << >>
        /\ SelectProcess =>
               /\ unique_syscalls' = {}
               /\ syscall_log' = << >>
        /\ (MonBack \/ MonKill \/ MonFilter \/ FilterExit) =>
               /\ unique_syscalls' = unique_syscalls
               /\ syscall_log' = syscall_log
        /\ TickExit =>
               LET st == IF tick_drains
                         THEN ingest([set |-> unique_syscalls, log |-> syscall_log],
                                     channel[strace_receiver[1]])
                         ELSE [set |-> unique_syscalls, log |-> syscall_log]
               IN  /\ unique_syscalls' = st.set
                   /\ syscall_log' = st.log ]_vars

\* C11 witness: the selection screen after the second session, which Enter
\* started and a teardown ended; the log holds the names that session ingested
C11_Witness ==
    /\ mode = "ProcessSelection"
    /\ spawned = 2
    /\ strace_child = None
    /\ child_state[2] = "reaped"
    /\ Len(syscall_log) = 2
    /\ unique_syscalls = Range(syscall_log)

\* the names of the lines the held subprocess has written
EmittedNames == Range(ParsedNames(EmittedLines))

\* C12: on the monitoring screen every member of unique_syscalls is the name
\* of a line the held subprocess has written, and the channel of the held
\* session holds lines of that subprocess only; a step of the reader thread
\* of a session the App does not hold takes a line from its own pipe and
\* changes no channel, nor the set, the log, the filter state or the mode.
C12_NamesComeFromHeldSession ==
    /\ [](mode = "SyscallMonitoring" =>
              /\ unique_syscalls \subseteq EmittedNames
              /\ Range(syscall_log) \subseteq EmittedNames
              /\ strace_receiver # None =>
                     Range(channel[strace_receiver[1]]) \subseteq Range(EmittedLines))
    /\ [][ \A s \in Sessions :
               (ReaderForward(s) /\ strace_receiver # Some(s)) =>
                   /\ channel' = channel
                   /\ UNCHANGED <<mode, monVars, fltVars, sessVars>> ]_vars

\* C12 witness: the second session has ingested a name while a line of the
\* first session, with another name, is still in the pipe of its reader thread
C12_Witness ==
    /\ mode = "SyscallMonitoring"
    /\ strace_child = Some(2)
    /\ child_state[1] = "reaped"
    /\ stderr_pipe[1] # << >>
    /\ parse_syscall(stderr_pipe[1][1]) # None
    /\ unique_syscalls # {}
    /\ parse_syscall(stderr_pipe[1][1])[1] \notin unique_syscalls

\* C13, as stated: the first tick of a session whose subprocess has ended
\* before it leaves the selection screen and unique_syscalls empty.
C13_ImmediateExitLeavesSetEmpty ==
    [][ TickExit => /\ mode' = "ProcessSelection"
                    /\ unique_syscalls' = {} ]_vars

\* C13, amended: the first tick of a session whose subprocess has ended
\* before it tears the session down and leaves the selection screen; with the
\* filter inactive it first ingests the lines the channel holds, so that the
\* log is the first occurrences of their names and the set its members, and
\* with the filter active it leaves the set and the log empty.
C13_ImmediateExitIngestsThenLeaves ==
    [][ TickExit =>
            /\ unique_syscalls = {}
            /\ mode' = "ProcessSelection"
            /\ strace_child' = None
            /\ strace_receiver' = None
            /\ \A s \in Sessions : child_state'[s] \in {"unborn", "reaped"}
            /\ syscall_log' = IF filter_mode THEN << >>
                              ELSE FirstOccurrences(
                                       ParsedNames(channel[strace_receiver[1]]))
            /\ unique_syscalls' = Range(syscall_log') ]_vars

\* C13 witness: the selection screen after the first tick of the session,
\* which found the subprocess ended and two lines with names in the channel
C13_Witness ==
    /\ mode = "ProcessSelection"
    /\ strace_child = None
    /\ child_state[1] = "reaped"
    /\ signal_result = None
    /\ Len(syscall_log) = 2
    /\ unique_syscalls = Range(syscall_log)

\* the list and the cursor a refresh on the selection screen would leave
Refreshed ==
    LET u == update_filtered_processes(get_processes(directory), process_filter,
                                       selected_process)
    IN  [processes |-> get_processes(directory),
         filtered |-> u.filtered,
         selected |-> u.selected]

\* C14: a step of the tick on the selection screen leaves processes the
\* snapshot of the directory, filtered_processes that snapshot under the
\* current filter, and the cursor inside the filtered list.
C14_SelectionTickRefreshes ==
    [][ TickSelection =>
            /\ processes' = Refreshed.processes
            /\ filtered_processes' = Refreshed.filtered
            /\ selected_process' = Refreshed.selected ]_vars

SearchResults(query) == {search(order, query) : order \in Orders(unique_syscalls)}

\* C16: on the monitoring screen with filter mode active, filtered_syscalls
\* is a result of search for the current set and the current query; with
\* filter mode off the query is empty, so that a step of 'f' finds it empty
\* and leaves the members of the set, each once, as the results; a step that
\* types or erases a character leaves a result of search for the new query.
C16_ResultsAreSearchOfSetAndQuery ==
    /\ []((mode = "SyscallMonitoring" /\ filter_mode) =>
              filtered_syscalls \in SearchResults(syscall_filter))
    /\ []((mode = "SyscallMonitoring" /\ ~filter_mode) => syscall_filter = << >>)
    /\ [][ /\ MonFilter =>
                  /\ syscall_filter = << >>
                  /\ filtered_syscalls' \in Orders(unique_syscalls)
           /\ (FilterBackspace \/ \E c \in TypedChars : FilterChar(c)) =>
                  /\ unique_syscalls' = unique_syscalls
                  /\ filtered_syscalls' \in SearchResults(syscall_filter') ]_vars

\* C16 witness: filter mode is active with a query that matches one of the
\* two names of the set, and the results hold that name alone
C16_Witness ==
    /\ mode = "SyscallMonitoring"
    /\ filter_mode
    /\ syscall_filter # << >>
    /\ Cardinality(unique_syscalls) = 2
    /\ Len(filtered_syscalls) = 1
    /\ fuzzy_match(filtered_syscalls[1], syscall_filter) # None

\* C17: with the tick handled again and again, a monitoring state in which
\* the subprocess has ended by itself, filter mode active or not, leads to
\* the selection screen with the session torn down and the loop running;
\* and the step of the tick that finds the subprocess ended leaves the loop
\* running.
C17_ExitLeadsToSelection ==
    /\ (mode = "SyscallMonitoring" /\ child_has_exited)
           ~> (/\ mode = "ProcessSelection"
               /\ strace_child = None
               /\ strace_receiver = None
               /\ Unreaped = {}
               /\ loop = "running")
    /\ [][TickExit => (loop' = "running" /\ mode' = "ProcessSelection")]_vars

\* C17 witness: the selection screen with the filter flag still set: the
\* tick found the subprocess ended while filter mode was active and tore the
\* session down
C17_Witness ==
    /\ mode = "ProcessSelection"
    /\ loop = "running"
    /\ filter_mode
    /\ strace_child = None
    /\ child_state[1] = "reaped"

\* C18, as stated: on the selection screen filter_mode is not set and
\* syscall_filter is empty.
C18_FilterFlagOnlyInMonitoring ==
    (mode = "ProcessSelection") => (~filter_mode /\ syscall_filter = << >>)

\* C18, amended: the mode is one of the two screens and the query is empty
\* unless filter_mode is set; the selection screen is entered with
\* filter_mode set only by the tick that finds the subprocess ended while
\* filter mode is active; on the selection screen the flag and the query stay
\* as they are until selectProcess, which leaves the monitoring screen with
\* filter mode off and the query empty.
C18_FilterFlagInertOnSelection ==
    /\ [](mode \in {"ProcessSelection", "SyscallMonitoring"})
    /\ [](syscall_filter # << >> => filter_mode)
    /\ [][ /\ (mode = "SyscallMonitoring" /\ mode' = "ProcessSelection" /\ filter_mode') =>
                  (TickExit /\ filter_mode)
           /\ (mode = "ProcessSelection" /\ mode' = "ProcessSelection") =>
                  UNCHANGED fltVars
           /\ (mode = "ProcessSelection" /\ mode' = "SyscallMonitoring") =>
                  /\ SelectProcess
                  /\ ~filter_mode'
                  /\ syscall_filter' = << >> ]_vars

\* C18 witness: the selection screen with filter_mode set and a query, after
\* a tick was handled there
C18_Witness ==
    /\ mode = "ProcessSelection"
    /\ loop = "running"
    /\ filter_mode
    /\ syscall_filter # << >>
    /\ tick_seen

\* C19: while run_app is looping, strace_child and strace_receiver are both
\* held or both not, they belong to the same session, and they are held
\* exactly on the monitoring screen.
C19_HandleAndChannelWithMode ==
    Running =>
        /\ (strace_child = None) <=> (strace_receiver = None)
        /\ strace_child = strace_receiver
        /\ (strace_child # None) <=> (mode = "SyscallMonitoring")

\* C19 witness: the loop runs on the monitoring screen of the second session,
\* after the first session was torn down, with the handle and the receiver
\* of the second, whose subprocess has ended and no tick has seen it yet
C19_Witness ==
    /\ Running
    /\ mode = "SyscallMonitoring"
    /\ strace_child = Some(2)
    /\ strace_receiver = Some(2)
    /\ child_state[2] = "exited"
    /\ child_state[1] = "reaped"

\* C20: whenever filtered_processes is not empty the cursor is an index of
\* it, and with the list empty the cursor is 0; a step of Enter on a
\* non-empty list takes the process under the cursor; a step of Enter on the
\* empty list changes nothing and starts no session.
C20_CursorInBounds ==
    /\ [](/\ filtered_processes # << >> => selected_process < Len(filtered_processes)
          /\ filtered_processes = << >> => selected_process = 0
          /\ selected_process >= 0)
    /\ [][ /\ SelectProcess =>
                  /\ selected_process + 1 \in DOMAIN filtered_processes
                  /\ target_pid' = filtered_processes[selected_process + 1].pid
                  /\ target_process_name' = filtered_processes[selected_process + 1].name
           /\ (SelEnter /\ filtered_processes = << >>) =>
                  /\ UNCHANGED vars
                  /\ spawned' = spawned ]_vars

\* C20 witness: back on the selection screen after a session on the second
\* process of the list, which has ended meanwhile: the list holds one process
\* and the cursor, which was on the second, is on it
C20_Witness ==
    /\ mode = "ProcessSelection"
    /\ spawned = 1
    /\ child_state[1] = "reaped"
    /\ target_pid = 2
    /\ Len(filtered_processes) = 1
    /\ filtered_processes[1].pid = 1
    /\ selected_process = 0

=============================================================================
